---- MODULE Spec2Model ----
(***************************************************************************)
(* Model of datasets/ou_process.py: the Ornstein-Uhlenbeck path simulator  *)
(* simulate_ou_process and the dataset assembler create_ou_dataset.        *)
(*                                                                         *)
(* Numbers.  Real arithmetic is modelled exactly.  A rational is a pair    *)
(* <<n, d>> in lowest terms with d > 0.  Within one call dt is fixed and   *)
(* the only irrational quantity is sqrt(dt), which enters every path       *)
(* value linearly, so a path value is a record [rat |-> a, surd |-> b]     *)
(* standing for a + b*sqrt(dt).  Floating-point rounding is not modelled.  *)
(*                                                                         *)
(* Random generator.  numpy's global generator is a deterministic stream   *)
(* per seed.  tape[s] is the part of the stream of seed s revealed so far  *)
(* (standard-normal draws), seed the current seed, pos the number of       *)
(* draws consumed since seeding.  A draw beyond the revealed part picks    *)
(* any value of Z and records it, so re-seeding replays the same values.   *)
(***************************************************************************)
EXTENDS Integers, Sequences, FiniteSets, TLC

\* ---------------------------------------------------------------- bounds
MaxT == 2
MaxLen == 3
MaxSamples == 2
MaxCalls == 2

TVals == 1..MaxT
LenVals == 2..MaxLen
NVals == -1..MaxSamples
MuVals == {0, 1}
SigmaVals == {0, 1}
ThetaVals == {0, 1}
X0Vals == {0, 2}
\* values a standard-normal draw can take in the model
Z == {-1, 1}
SeedIds == {0}

\* ------------------------------------------------------- exact arithmetic
Abs(n) == IF n < 0 THEN -n ELSE n

RECURSIVE Gcd(_, _)
Gcd(a, b) == IF b = 0 THEN a ELSE Gcd(b, a % b)

Norm(n, d) ==
  LET s == IF d < 0 THEN -1 ELSE 1
      g == Gcd(Abs(n), Abs(d))
  IN  <<(s * n) \div g, (s * d) \div g>>

R(n) == <<n, 1>>
RAdd(p, q) == Norm(p[1] * q[2] + q[1] * p[2], p[2] * q[2])
RSub(p, q) == Norm(p[1] * q[2] - q[1] * p[2], p[2] * q[2])
RMul(p, q) == Norm(p[1] * q[1], p[2] * q[2])
RDiv(p, q) == Norm(p[1] * q[2], p[2] * q[1])
RLt(p, q) == p[1] * q[2] < q[1] * p[2]

\* a + b*sqrt(dt)
S(a, b) == [rat |-> a, surd |-> b]
SRat(a) == S(a, R(0))
SAdd(x, y) == S(RAdd(x.rat, y.rat), RAdd(x.surd, y.surd))
SSub(x, y) == S(RSub(x.rat, y.rat), RSub(x.surd, y.surd))
SScale(r, x) == S(RMul(r, x.rat), RMul(r, x.surd))

\* ------------------------------------------------------- numpy primitives
\* np.linspace(start, stop, num): step = (stop-start)/(num-1), point k is
\* start + k*step, and the last point is set to stop.
linspaceHalfOpen(start, stop, num) ==
  LET step == RDiv(RSub(stop, start), R(num))
  IN  [k \in 1..num |-> RAdd(start, RMul(R(k - 1), step))]

linspace(start, stop, num) ==
  LET div == num - 1
      step == RDiv(RSub(stop, start), R(div))
  IN  [k \in 1..num |->
         IF k = num /\ num > 1 THEN stop
         ELSE RAdd(start, RMul(R(k - 1), step))]

\* np.zeros(n)
zeros(n) == [k \in 1..n |-> SRat(R(0))]

\* np.sqrt(dt), kept symbolic
sqrt_dt == S(R(0), R(1))

\* np.random.normal(loc, scale) for the standard-normal draw z
normal(loc, scale, z) == SAdd(loc, SScale(R(z), scale))

\* the values the generator can return for the draw after pos
NextDrawsFresh(tp, p) == Z

NextDraws(tp, p) == IF p < Len(tp) THEN {tp[p + 1]} ELSE Z

\* the revealed stream after the draw z at position p
Reveal(tp, p, z) == IF p < Len(tp) THEN tp ELSE Append(tp, z)

AdvanceTwice(p) == p + 2

Advance(p) == p + 1

\* np.zeros(shape) for a 3-d shape; indices are 0-based as in the source
Idx3(shape) ==
  {<<a, b, c>> : a \in 0..(shape[1] - 1), b \in 0..(shape[2] - 1),
                 c \in 0..(shape[3] - 1)}

zeros3(shape) == [shape |-> shape, at |-> [ix \in Idx3(shape) |-> SRat(R(0))]]

\* data[i, c, :] = row
SetRow(arr, i, c, row) ==
  [arr EXCEPT !.at = [ix \in DOMAIN arr.at |->
     IF ix[1] = i /\ ix[2] = c THEN row[ix[3] + 1] ELSE arr.at[ix]]]

\* ------------------------------------------------------- torch primitives
\* torch.Tensor(ndarray) converts every element to single precision; the
\* converted element is kept as "the float32 nearest to x".
ToFloat32(x) == [f32 |-> x]

Tensor(arr) == [shape |-> arr.shape,
                at |-> [ix \in DOMAIN arr.at |-> ToFloat32(arr.at[ix])]]

\* tensor.permute(p): output axis k is input axis p[k] (axes 0-based)
permuteIdentity(ten, p) == ten

permute(ten, p) ==
  LET sh == <<ten.shape[p[1] + 1], ten.shape[p[2] + 1], ten.shape[p[3] + 1]>>
      src(ix) == [a \in 1..3 |->
                    ix[CHOOSE k \in 1..3 : p[k] + 1 = a]]
  IN  [shape |-> sh, at |-> [ix \in Idx3(sh) |-> ten.at[src(ix)]]]

\* torch.linspace(start, end, steps), a single-precision tensor
torch_linspace(start, stop, num) ==
  [k \in 1..num |-> ToFloat32(linspace(start, stop, num)[k])]

\* ------------------------------------------------- simulate_ou_process
DtGrid(T, len_trajectory) == RDiv(R(T), R(len_trajectory - 1))

\* dt = T/len_trajectory
Dt(T, len_trajectory) == RDiv(R(T), R(len_trajectory))

\* X = np.zeros(len_trajectory); X[0] = X_0
InitPathUnset(len_trajectory, X_0) == zeros(len_trajectory)

InitPath(len_trajectory, X_0) ==
  [zeros(len_trajectory) EXCEPT ![1] = SRat(R(X_0))]

\* The loop body's value for X[i], given the draw dB.  Xs is the path as a
\* 1-based sequence, so Xs[i] is the source's X[i-1].
UpdateFromStart(Xs, i, mu, sigma, theta, d, dB) ==
  LET drift == SSub(SRat(R(mu)), Xs[1])
      diffusion == R(sigma)
  IN  SAdd(SAdd(Xs[i], SScale(d, SScale(R(theta), drift))),
           SScale(diffusion, dB))

UpdateUnitDiffusion(Xs, i, mu, sigma, theta, d, dB) ==
  LET drift == SSub(SRat(R(mu)), Xs[i])
      diffusion == R(1)
  IN  SAdd(SAdd(Xs[i], SScale(d, SScale(R(theta), drift))),
           SScale(diffusion, dB))

UpdateUnitRate(Xs, i, mu, sigma, theta, d, dB) ==
  LET drift == SSub(SRat(R(mu)), Xs[i])
      diffusion == R(sigma)
  IN  SAdd(SAdd(Xs[i], SScale(d, drift)), SScale(diffusion, dB))

Update(Xs, i, mu, sigma, theta, d, dB) ==
  LET drift == SSub(SRat(R(mu)), Xs[i])
      diffusion == R(sigma)
  IN  SAdd(SAdd(Xs[i], SScale(d, SScale(R(theta), drift))),
           SScale(diffusion, dB))

\* ------------------------------------------------------------------ state
VARIABLES
  args,          \* the call's arguments
  mode,          \* "create": create_ou_dataset runs; "sim": direct calls
  pc,            \* position in the running function
  t, X, dt, i,   \* locals of simulate_ou_process
  smp, data,     \* loop index and array of create_ou_dataset
  norm_T, spline_coeffs,
  seed, pos, tape,   \* the global random generator
  start,         \* generator position when the top-level call began
  log,           \* the draws made by the top-level call, in order
  results,       \* (t, X) returned by each simulator call of the assembler
  hist,          \* completed direct simulator calls
  calls          \* number of direct simulator calls made

vars == <<args, mode, pc, t, X, dt, i, smp, data, norm_T, spline_coeffs,
          seed, pos, tape, start, log, results, hist, calls>>

simLocals == <<t, X, dt, i>>
genVars == <<seed, pos, tape>>
asmVars == <<smp, data, norm_T, spline_coeffs, results>>

NoArray == [shape |-> <<0, 0, 0>>, at |-> [ix \in {} |-> SRat(R(0))]]
NoCoeffs == [samples |-> -1]

ArgSets ==
  [T : TVals, len_trajectory : LenVals, mu : MuVals, sigma : SigmaVals,
   theta : ThetaVals, X_0 : X0Vals]

InitCommon ==
  /\ t = <<>> /\ X = <<>> /\ dt = R(0) /\ i = 0
  /\ smp = 0 /\ data = NoArray /\ norm_T = <<>> /\ spline_coeffs = NoCoeffs
  /\ seed = 0 /\ pos = 0 /\ tape = [sd \in SeedIds |-> <<>>]
  /\ start = 0 /\ log = <<>> /\ results = <<>> /\ hist = <<>> /\ calls = 0

\* create_ou_dataset has just been called
Init ==
  /\ \E a \in ArgSets, n \in NVals :
        args = [n_samples |-> n, T |-> a.T,
                len_trajectory |-> a.len_trajectory, mu |-> a.mu,
                sigma |-> a.sigma, theta |-> a.theta, X_0 |-> a.X_0]
  /\ mode = "create" /\ pc = "alloc"
  /\ InitCommon

\* a caller about to call simulate_ou_process directly
InitSim ==
  /\ \E a \in ArgSets :
        args = [n_samples |-> 0, T |-> a.T,
                len_trajectory |-> a.len_trajectory, mu |-> a.mu,
                sigma |-> a.sigma, theta |-> a.theta, X_0 |-> a.X_0]
  /\ mode = "sim" /\ pc = "idle"
  /\ InitCommon

\* ------------------------------------------------- simulate_ou_process
\* lines 21-24 and the loop header
SimEnter ==
  /\ t' = linspace(R(0), R(args.T), args.len_trajectory)
  /\ X' = InitPath(args.len_trajectory, args.X_0)
  /\ dt' = Dt(args.T, args.len_trajectory)
  /\ i' = 1
  /\ pc' = "sim"

\* one iteration of "for i in range(1, len_trajectory)"
SimStep ==
  /\ pc = "sim" /\ i < args.len_trajectory
  /\ \E z \in NextDraws(tape[seed], pos) :
       LET dB == normal(SRat(R(0)), sqrt_dt, z)
       IN  /\ X' = [X EXCEPT ![i + 1] =
                      Update(X, i, args.mu, args.sigma, args.theta, dt, dB)]
           /\ tape' = [tape EXCEPT ![seed] = Reveal(@, pos, z)]
           /\ log' = Append(log, [sample |-> smp, i |-> i, k |-> pos + 1,
                                  z |-> z, dB |-> dB])
  /\ pos' = Advance(pos)
  /\ i' = i + 1
  /\ UNCHANGED <<args, mode, pc, t, dt, asmVars, seed, start, hist, calls>>

\* the caller seeds the global generator (np.random.seed)
Seed ==
  /\ pc = "idle"
  /\ \E sd \in SeedIds : seed' = sd
  /\ pos' = 0
  /\ UNCHANGED <<args, mode, pc, simLocals, asmVars, tape, start, log,
                 hist, calls>>

\* a direct call of simulate_ou_process
CallSimulate ==
  /\ pc = "idle" /\ calls < MaxCalls
  /\ calls' = calls + 1
  /\ start' = pos
  /\ log' = <<>>
  /\ SimEnter
  /\ UNCHANGED <<args, mode, asmVars, genVars, hist>>

\* "return t, X" to a direct caller
SimReturn ==
  /\ mode = "sim" /\ pc = "sim" /\ i >= args.len_trajectory
  /\ hist' = Append(hist, [seed |-> seed, start |-> start, t |-> t,
                            X |-> X, log |-> log, stop |-> pos])
  /\ pc' = "idle"
  /\ UNCHANGED <<args, mode, simLocals, asmVars, genVars, start, log, calls>>

\* --------------------------------------------------- create_ou_dataset
\* line 50; numpy rejects a negative dimension
Alloc ==
  /\ pc = "alloc" /\ args.n_samples >= 0
  /\ data' = zeros3(<<args.n_samples, 2, args.len_trajectory>>)
  /\ smp' = 0
  /\ pc' = "loop"
  /\ UNCHANGED <<args, mode, simLocals, norm_T, spline_coeffs, results,
                 genVars, start, log, hist, calls>>

AllocFail ==
  /\ pc = "alloc" /\ args.n_samples < 0
  /\ pc' = "error"
  /\ UNCHANGED <<args, mode, simLocals, asmVars, genVars, start, log,
                 hist, calls>>

\* lines 51-52: the next iteration calls the simulator
LoopCall ==
  /\ pc = "loop" /\ smp < args.n_samples
  /\ SimEnter
  /\ UNCHANGED <<args, mode, asmVars, genVars, start, log, hist, calls>>

\* the simulator returns into lines 53-54
StoreSample ==
  /\ mode = "create" /\ pc = "sim" /\ i >= args.len_trajectory
  /\ data' = SetRow(SetRow(data, smp, 0, [k \in DOMAIN t |-> SRat(t[k])]),
                    smp, 1, X)
  /\ results' = Append(results, [t |-> t, X |-> X])
  /\ smp' = smp + 1
  /\ pc' = "loop"
  /\ UNCHANGED <<args, mode, simLocals, norm_T, spline_coeffs, genVars,
                 start, log, hist, calls>>

\* line 56, after the loop
Permute ==
  /\ pc = "loop" /\ smp >= args.n_samples
  /\ data' = permute(Tensor(data), <<0, 2, 1>>)
  /\ pc' = "spline"
  /\ UNCHANGED <<args, mode, simLocals, smp, norm_T, spline_coeffs, results,
                 genVars, start, log, hist, calls>>

\* torchcde.hermite_cubic_coefficients_with_backward_differences: one set
\* of coefficients per sample of the batch
hermite_cubic_coefficients_with_backward_differences(x, ts) ==
  [samples |-> x.shape[1]]

\* lines 57-60
Spline ==
  /\ pc = "spline"
  /\ norm_T' = torch_linspace(R(0), R(1), args.len_trajectory)
  /\ spline_coeffs' =
       hermite_cubic_coefficients_with_backward_differences(data, norm_T')
  /\ pc' = "done"
  /\ UNCHANGED <<args, mode, simLocals, smp, data, results, genVars, start,
                 log, hist, calls>>

\* The interpolation library raises.  Whether it accepts an empty batch is
\* decided inside the library, so for n_samples = 0 both outcomes are kept.
SplineReject ==
  /\ pc = "spline" /\ args.n_samples = 0
  /\ norm_T' = torch_linspace(R(0), R(1), args.len_trajectory)
  /\ pc' = "error"
  /\ UNCHANGED <<args, mode, simLocals, smp, data, spline_coeffs, results,
                 genVars, start, log, hist, calls>>

Next ==
  \/ Alloc
  \/ AllocFail
  \/ LoopCall
  \/ SimStep
  \/ StoreSample
  \/ Permute
  \/ Spline
  \/ SplineReject

Spec == Init /\ [][Next]_vars

NextSim ==
  \/ Seed
  \/ CallSimulate
  \/ SimStep
  \/ SimReturn

SpecSim == InitSim /\ [][NextSim]_vars

\* ------------------------------------------------------------ properties
Returned == {hist[k] : k \in 1..Len(hist)}

\* T / len_trajectory and T / (len_trajectory - 1), as the claims state them
DtClaimed == RDiv(R(args.T), R(args.len_trajectory))

\* x + theta*(mu - x)*dt
Drifted(x) ==
  SAdd(x, SScale(RMul(R(args.theta), DtClaimed), SSub(SRat(R(args.mu)), x)))

\* C1: every returned time grid has len_trajectory points, starts at 0,
\* ends at T, and is strictly increasing with equal spacing.
C1_TimeGrid ==
  \A h \in Returned :
    /\ Len(h.t) = args.len_trajectory
    /\ h.t[1] = R(0)
    /\ h.t[args.len_trajectory] = R(args.T)
    /\ \A k \in 1..(args.len_trajectory - 1) :
         /\ RLt(h.t[k], h.t[k + 1])
         /\ RSub(h.t[k + 1], h.t[k]) = RSub(h.t[2], h.t[1])

C1_Witness ==
  /\ Len(hist) >= 1
  /\ args.len_trajectory >= 3
  /\ hist[1].t[2] # R(args.T)

\* C2: the returned path has the length of the returned grid,
\* len_trajectory, and its first element is X_0; the update loop never
\* changes index 0.
C2_PathStart ==
  /\ \A h \in Returned :
       /\ Len(h.X) = Len(h.t)
       /\ Len(h.X) = args.len_trajectory
       /\ h.X[1] = SRat(R(args.X_0))
  /\ pc = "sim" => X[1] = SRat(R(args.X_0))

C2_Witness ==
  /\ Len(hist) >= 1
  /\ args.X_0 # 0
  /\ args.len_trajectory >= 3
  /\ \E k \in 2..Len(hist[1].X) : hist[1].X[k] # hist[1].X[1]

\* C3: in every returned path, X[i] = X[i-1] + theta*(mu - X[i-1])*dt
\* + sigma*dB_i for i = 1..len_trajectory-1, with dt = T/len_trajectory and
\* dB_i = sqrt(dt) times the i-th standard-normal draw of that call.
C3_Recurrence ==
  \A h \in Returned :
    /\ Len(h.log) = args.len_trajectory - 1
    /\ \A j \in 1..(args.len_trajectory - 1) :
         /\ h.log[j].z = tape[h.seed][h.start + j]
         /\ h.log[j].dB = S(R(0), R(h.log[j].z))
         /\ h.X[j + 1] =
              SAdd(Drifted(h.X[j]), SScale(R(args.sigma), h.log[j].dB))

C3_Witness ==
  /\ Len(hist) >= 1
  /\ args.len_trajectory >= 3
  /\ args.theta # 0 /\ args.sigma # 0 /\ args.mu # args.X_0
  /\ hist[1].log[1].z # 0 /\ hist[1].log[2].z # 0
  /\ hist[1].X[2] # hist[1].X[1]

\* C4: with sigma = 0 every returned path satisfies
\* X[i] = X[i-1] + theta*(mu - X[i-1])*dt and all calls return the same
\* path, whatever the generator state they started from.
C4_SigmaZero ==
  args.sigma = 0 =>
    /\ \A h \in Returned : \A j \in 1..(args.len_trajectory - 1) :
         h.X[j + 1] = Drifted(h.X[j])
    /\ \A g, h \in Returned : g.X = h.X

C4_Witness ==
  /\ args.sigma = 0 /\ args.theta # 0 /\ args.mu # args.X_0
  /\ Len(hist) >= 2
  /\ \E j \in 1..Len(hist[1].log) :
       /\ hist[1].log[j].z # hist[2].log[j].z
       /\ hist[1].log[j].z # 0

\* C5: with theta = 0 and sigma = 0 every element of a returned path
\* equals X_0.
C5_Constant ==
  (args.theta = 0 /\ args.sigma = 0) =>
    \A h \in Returned : \A k \in 1..args.len_trajectory :
      h.X[k] = SRat(R(args.X_0))

C5_Witness ==
  /\ args.theta = 0 /\ args.sigma = 0 /\ args.mu # args.X_0
  /\ args.X_0 # 0
  /\ Len(hist) >= 1
  /\ \E j \in 1..Len(hist[1].log) : hist[1].log[j].z # 0

\* C7: two calls that start from the same generator state return the same
\* path and the same time grid.
C7_Reproducible ==
  \A g, h \in Returned :
    (g.seed = h.seed /\ g.start = h.start) => (g.X = h.X /\ g.t = h.t)

C7_Witness ==
  /\ Len(hist) >= 2
  /\ hist[1].seed = hist[2].seed /\ hist[1].start = hist[2].start
  /\ args.sigma # 0
  /\ \E j \in 1..Len(hist[1].log) : hist[1].log[j].z # 0

\* C10: dt = T/len_trajectory is smaller than the spacing of the time
\* grid, (len_trajectory-1)*dt is smaller than T, and i*dt differs from
\* t[i] for every i >= 1.
C10_StepBelowSpacing ==
  pc = "sim" =>
    /\ dt = DtClaimed
    /\ RLt(dt, RSub(t[2], t[1]))
    /\ RLt(RMul(R(args.len_trajectory - 1), dt), t[args.len_trajectory])
    /\ \A k \in 1..(args.len_trajectory - 1) : RMul(R(k), dt) # t[k + 1]

C10_Witness ==
  /\ pc = "sim" /\ i = args.len_trajectory
  /\ args.len_trajectory >= 3

\* C6: for n_samples >= 1 the returned dataset has shape
\* (n_samples, len_trajectory, 2); entry [s][j][0] is the j-th grid point
\* and entry [s][j][1] the j-th value of the path returned by the s-th
\* simulator call, each as the single-precision element the tensor holds.
C6_Dataset ==
  (pc = "done" /\ args.n_samples >= 1) =>
    /\ data.shape = <<args.n_samples, args.len_trajectory, 2>>
    /\ Len(results) = args.n_samples
    /\ \A sm \in 0..(args.n_samples - 1) :
         \A j \in 0..(args.len_trajectory - 1) :
           /\ data.at[<<sm, j, 0>>] = [f32 |-> SRat(results[sm + 1].t[j + 1])]
           /\ data.at[<<sm, j, 1>>] = [f32 |-> results[sm + 1].X[j + 1]]

C6_Witness ==
  /\ pc = "done" /\ args.n_samples >= 2
  /\ args.len_trajectory >= 3
  /\ results[1].X # results[2].X
  /\ spline_coeffs.samples = args.n_samples

\* C9: every draw advances the generator by one; the m-th draw of
\* create_ou_dataset is made by sample (m-1) div (len_trajectory-1) for
\* path index ((m-1) mod (len_trajectory-1)) + 1; each simulator call has
\* made len_trajectory-1 draws when it returns, and from the end of the loop
\* on the generator stands at n_samples*(len_trajectory-1) draws.
C9_Draws ==
  LET per == args.len_trajectory - 1 IN
  /\ pos = start + Len(log)
  /\ \A m \in 1..Len(log) :
       /\ log[m].k = start + m
       /\ log[m].sample = (m - 1) \div per
       /\ log[m].i = ((m - 1) % per) + 1
  /\ pc = "loop" => Len(log) = smp * per
  /\ pc = "sim" => Len(log) = smp * per + (i - 1)
  /\ pc \in {"spline", "done"} => pos = start + args.n_samples * per

C9_Witness ==
  /\ pc = "done" /\ args.n_samples >= 2
  /\ args.len_trajectory >= 3
  /\ Len(log) = args.n_samples * (args.len_trajectory - 1)

\* C8: create_ou_dataset never returns a dataset when n_samples <= 0.
C8_FailsNonPositive ==
  args.n_samples <= 0 => pc # "done"

====
